---- MODULE Spec2Model ----
(***************************************************************************)
(* Model of the HackLeeSDK agent application (src/app.py).                 *)
(*                                                                         *)
(* Two execution contexts are modelled:                                    *)
(*   - the foreground (Qt main thread): MainWindow's slots, which run one  *)
(*     at a time and take the queued signals in FIFO order;                *)
(*   - the driver (the worker QThread): AgentWorker.run, which drives      *)
(*     _run_agent_team on its own asyncio loop.                            *)
(* The human-input bridge is the pair set_user_reply / _user_input of      *)
(* AgentWorker, sharing user_reply and the asyncio.Event user_reply_ready. *)
(* set_user_reply runs on the foreground thread while _user_input runs on  *)
(* the driver thread, so both are split at every access to shared state.   *)
(*                                                                         *)
(* Spec        the whole application: GUI events, signal queue, driver.    *)
(* BridgeSpec  the bridge alone: an AgentWorker whose two methods are      *)
(*             called by arbitrary callers (supply at any time, requests   *)
(*             from up to two coroutines of the driver loop).              *)
(***************************************************************************)
EXTENDS Integers, Sequences, FiniteSets, TLC

\* ------------------------------------------------------------------ bounds
MaxRuns == 2        \* AgentWorker objects created by start_task
MaxTurns == 2       \* items the outer team's stream yields in one run
MaxRequests == 2    \* BridgeSpec: calls of _user_input
MaxSupplies == 2    \* BridgeSpec: calls of set_user_reply

\* ------------------------------------------------------------------ values
\* Python's None, as a text no user or agent can produce
None == <<"None">>

\* Text is a sequence of tokens; " " is whitespace.
ProblemTexts == {<<>>, <<" ">>, <<"p">>}
UserTexts == {<<>>, <<" ">>, <<"go">>, <<" ", "exit", " ">>}
StreamSources == {"Coding_Agent", "Critic_Agent"}
MsgContents == {<<"code">>, <<"Approved">>}
Errors == {<<"model call failed">>}
Callers == {1, 2}
PromptText == <<"prompt">>

RECURSIVE LStrip(_)
LStrip(s) ==
    IF s = <<>> THEN s
    ELSE IF Head(s) = " " THEN LStrip(Tail(s)) ELSE s

RECURSIVE RStrip(_)
RStrip(s) ==
    IF s = <<>> THEN s
    ELSE IF s[Len(s)] = " " THEN RStrip(SubSeq(s, 1, Len(s) - 1)) ELSE s

\* str.strip()
Strip(s) == RStrip(LStrip(s))

Replies == {Strip(t) : t \in UserTexts} \ {<<>>}

VARIABLES
    \* MainWindow
    problem_input,      \* text of the problem line edit
    start_enabled,      \* start_button.isEnabled()
    input_visible,      \* user_input_area.isVisible()
    user_input,         \* text of the reply line edit
    worker,             \* self.worker: id of the AgentWorker, 0 = None
    thread,             \* self.thread: id of the run its QThread serves, 0 = None
    crashed,            \* the process was aborted
    runs,               \* AgentWorker objects created so far
    handled,            \* what the foreground slots have handled, in order
    mpc,                \* foreground position inside set_user_reply
    \* signal channel driver -> foreground
    queue,              \* queued signal emissions not yet delivered
    emitted,            \* every emission of the current run, in order
    \* driver
    pc,                 \* position of _run_agent_team / run
    turns,              \* items taken from the stream in this run
    err,                \* str(e) of the exception in flight
    \* AgentWorker bridge state
    user_reply,         \* self.user_reply
    user_reply_ready,   \* self.user_reply_ready._value
    waiters,            \* callers whose wait() future is registered
    woken,              \* callers whose wait() future has its result set
    rpc,                \* per caller: position inside _user_input
    reply,              \* per caller: the local variable reply
    \* history
    requests,           \* calls of _user_input on this worker
    supplied,           \* calls of set_user_reply on this worker
    returned,           \* returns of _user_input on this worker
    sinceReturn,        \* set_user_reply calls begun since the last return
    resumes             \* times a suspended wait() was resumed on this worker

guiVars == <<problem_input, start_enabled, input_visible, user_input, worker,
             thread, crashed, runs, handled>>
drvVars == <<pc, turns, err>>
chanVars == <<queue, emitted>>
brVars == <<user_reply, user_reply_ready, waiters, woken>>
callVars == <<rpc, reply>>
histVars == <<requests, supplied, returned, sinceReturn, resumes>>
appVars == <<guiVars, mpc, chanVars, drvVars, brVars, callVars, histVars>>

\* The tool of the two agents (src/code_run.py): the working directory that
\* every call of compile_and_run_java shares, and the calls in progress.
VARIABLES
    files,              \* working directory: file name -> content
    th,                 \* per tool thread: the call of compile_and_run_java it runs
    calls               \* calls of compile_and_run_java begun so far

sbVars == <<files, th, calls>>

\* The screenshot tool (src/main.py): the keyboard listener's module state,
\* the two signals from the listener thread to the GUI thread, and the
\* ScreenshotApp object.
VARIABLES
    pressed_keys,           \* the module's set of keys taken as held
    signals,                \* capture_requested / finish_requested emitted, not yet delivered
    model,                  \* self.model: "unset", "none" or "ready"
    captured_screens_bytes, \* self.captured_screens_bytes, as its length
    last_gemini_response,   \* self.last_gemini_response
    key_events,             \* listener callbacks run so far
    last_event,             \* the latest callback and its key
    chord,                  \* since pressed_keys was last empty: releases seen, requests emitted
    finishes                \* every run of send_final_result_to_backend: state before, outcome

ssVars == <<pressed_keys, signals, model, captured_screens_bytes,
            last_gemini_response, key_events, last_event, chord, finishes>>
vars == <<appVars, sbVars, ssVars>>

\* ------------------------------------------------------------------ signals
\* One emission of a Qt signal of the worker.  run and n identify it.
Ev(sig, type, source, content) ==
    [run |-> runs, n |-> Len(emitted) + 1, sig |-> sig, type |-> type,
     source |-> source, content |-> content]

\* mutant: the newest posted call is delivered first
Post_Front(q, ev) == <<ev>> \o q

\* A queued connection posts the call to the receiver's thread.
Post(q, ev) == Append(q, ev)

Emit(ev) ==
    /\ queue' = Post(queue, ev)
    /\ emitted' = Append(emitted, ev)

\* The foreground event loop delivers the oldest posted call first.
NextDelivery(q) == Head(q)

AfterDelivery(q) == Tail(q)

\* ------------------------------------------------------------------ bridge
\* Positions of a caller inside _user_input at which its request has been
\* published and its reply has not been taken yet.
Awaiting == {"wait", "register", "suspended"}
\* Positions at which the caller's coroutine occupies the driver loop.
Running == {"wait", "register", "read", "clear1", "clear2"}

Outstanding == {c \in Callers : rpc[c] \in Awaiting}

\* One asyncio loop runs one coroutine at a time.
LoopFree(c) == \A d \in Callers \ {c} : rpc[d] \notin Running

\* set_user_reply, line 65: self.user_reply = reply
SetUserReply(r) ==
    /\ mpc = "idle"
    /\ user_reply' = r
    /\ mpc' = "set"
    /\ supplied' = Append(supplied,
                          [reply |-> r, outstanding |-> Outstanding # {},
                           parked |-> {c \in Callers : rpc[c] = "suspended"},
                           req |-> requests])
    /\ sinceReturn' = sinceReturn + 1
    /\ UNCHANGED <<user_reply_ready, waiters, woken, requests, returned,
                   resumes>>

\* set_user_reply, line 66: Event.set(), first half: _value = True
EventSetValue ==
    /\ mpc = "set"
    /\ ~crashed
    /\ IF user_reply_ready
         THEN mpc' = "idle" /\ UNCHANGED user_reply_ready
         ELSE mpc' = "wake" /\ user_reply_ready' = TRUE
    /\ UNCHANGED <<guiVars, chanVars, drvVars, user_reply, waiters, woken,
                   callVars, histVars>>
    /\ UNCHANGED <<sbVars, ssVars>>

\* set_user_reply, line 66: Event.set(), second half: the result of every
\* registered waiter future is set
EventWake ==
    /\ mpc = "wake"
    /\ ~crashed
    /\ woken' = woken \cup waiters
    /\ mpc' = "idle"
    /\ UNCHANGED <<guiVars, chanVars, drvVars, user_reply, user_reply_ready,
                   waiters, callVars, histVars>>
    /\ UNCHANGED <<sbVars, ssVars>>

\* _user_input, line 71: self.user_prompt.emit(prompt)
RequestEmit(c) ==
    /\ rpc[c] \in {"idle", "returned"}
    /\ LoopFree(c)
    /\ Emit(Ev("user_prompt", "prompt", "user_proxy", PromptText))
    /\ rpc' = [rpc EXCEPT ![c] = "wait"]
    /\ requests' = requests + 1
    /\ UNCHANGED <<reply, supplied, returned, sinceReturn, resumes>>

\* _user_input, line 73: Event.wait() tests _value
WaitCheck(c) ==
    /\ rpc[c] = "wait"
    /\ ~crashed
    /\ rpc' = [rpc EXCEPT ![c] = IF user_reply_ready THEN "read" ELSE "register"]
    /\ UNCHANGED <<guiVars, mpc, chanVars, drvVars, brVars, reply, histVars>>
    /\ UNCHANGED <<sbVars, ssVars>>

\* _user_input, line 73: Event.wait() registers its future and suspends
WaitRegister(c) ==
    /\ rpc[c] = "register"
    /\ ~crashed
    /\ waiters' = waiters \cup {c}
    /\ rpc' = [rpc EXCEPT ![c] = "suspended"]
    /\ UNCHANGED <<guiVars, mpc, chanVars, drvVars, user_reply,
                   user_reply_ready, woken, reply, histVars>>
    /\ UNCHANGED <<sbVars, ssVars>>

\* _user_input, line 73: the loop resumes the coroutine whose future is done
Resume(c) ==
    /\ rpc[c] = "suspended"
    /\ c \in woken
    /\ LoopFree(c)
    /\ ~crashed
    /\ waiters' = waiters \ {c}
    /\ woken' = woken \ {c}
    /\ rpc' = [rpc EXCEPT ![c] = "read"]
    /\ resumes' = resumes + 1
    /\ UNCHANGED <<guiVars, mpc, chanVars, drvVars, user_reply,
                   user_reply_ready, reply, requests, supplied, returned,
                   sinceReturn>>
    /\ UNCHANGED <<sbVars, ssVars>>

\* mutant: the slot is read after it has been cleared
ReadReply_AfterClear(c) ==
    /\ rpc[c] = "read"
    /\ ~crashed
    /\ reply' = [reply EXCEPT ![c] = None]
    /\ rpc' = [rpc EXCEPT ![c] = "clear1"]
    /\ UNCHANGED <<guiVars, mpc, chanVars, drvVars, brVars, histVars>>
    /\ UNCHANGED <<sbVars, ssVars>>

\* _user_input, line 74: reply = self.user_reply
ReadReply(c) ==
    /\ rpc[c] = "read"
    /\ ~crashed
    /\ reply' = [reply EXCEPT ![c] = user_reply]
    /\ rpc' = [rpc EXCEPT ![c] = "clear1"]
    /\ UNCHANGED <<guiVars, mpc, chanVars, drvVars, brVars, histVars>>
    /\ UNCHANGED <<sbVars, ssVars>>

\* _user_input, line 75: self.user_reply = None
ClearReply(c) ==
    /\ rpc[c] = "clear1"
    /\ ~crashed
    /\ user_reply' = None
    /\ rpc' = [rpc EXCEPT ![c] = "clear2"]
    /\ UNCHANGED <<guiVars, mpc, chanVars, drvVars, user_reply_ready, waiters,
                   woken, reply, histVars>>
    /\ UNCHANGED <<sbVars, ssVars>>

\* _user_input, lines 76-77: self.user_reply_ready.clear(); return reply
ClearReady(c) ==
    /\ rpc[c] = "clear2"
    /\ ~crashed
    /\ user_reply_ready' = FALSE
    /\ rpc' = [rpc EXCEPT ![c] = "returned"]
    /\ returned' = Append(returned, [caller |-> c, value |-> reply[c]])
    /\ sinceReturn' = 0
    /\ UNCHANGED <<guiVars, mpc, chanVars, drvVars, user_reply, waiters, woken,
                   reply, requests, supplied, resumes>>
    /\ UNCHANGED <<sbVars, ssVars>>

\* ------------------------------------------- the tool's values (src/code_run.py)

MaxInvocations == 2

\* the callers of compile_and_run_java: the function is synchronous, takes no
\* lock and is handed to both agents as a tool, so two calls may overlap
Threads == {1, 2}

\* Main.java and Main.class are the fixed names of lines 13-14 and 54; javac
\* names every other class file after the class the source declares
FileNames == {"Main.java", "Main.class", "Other.class"}

\* what matters of a code argument: it declares class Main and compiles
\* ("good"), it compiles and declares no class Main ("nomain"), it does not
\* compile ("bad")
CodeKinds == {"good", "nomain", "bad"}

\* a file's content: the invocation whose step created it (by), the invocation
\* whose code argument it holds or was compiled from (owner), and that code's
\* kind
Absent == [by |-> 0, owner |-> 0, kind |-> "none"]

NoException == [type |-> "none", msg |-> <<>>]

\* line 34
JavacMissing == <<"Java compiler (javac) not found.">>

\* line 82
JavaMissing == <<"Java runtime (java) not found.">>

\* str(e) of an exception the code does not name (lines 35, 83)
Faults == {<<"fault">>}

\* javac's stderr
CompileErrors == <<"Main.java:1: error">>
CompileWarnings == <<"Main.java:1: warning">>
SourceNotFound == <<"error: file not found: Main.java">>

\* java's stderr
ClassNotFound == <<"Error: Could not find or load main class Main">>
RunStderrs == {<<>>, <<"NoSuchElementException">>, <<"trace">>}

\* the stdout of the program of invocation n
Stdout(n) == <<"out", ToString(n)>>

\* Python's truth value of compilation_error at line 94: None and "" are false
Truthy(text) == text # None /\ text # <<>>

\* `needle in stderr`, lines 66, 69, 72
Contains(text, needle) == \E k \in 1..Len(text) : text[k] = needle

\* a chain that tests the null-dereference sentinel first
Classify_NullFirst(stderr) ==
    IF Contains(stderr, "NullPointerException")
      THEN [type |-> "AttributeError",
            msg |-> <<"A null object was accessed in the executed code.">>]
    ELSE IF Contains(stderr, "InputMismatchException")
      THEN [type |-> "ValueError",
            msg |-> <<"The input is of an incorrect type.">>]
    ELSE IF Contains(stderr, "NoSuchElementException")
      THEN [type |-> "EOFError",
            msg |-> <<"Scanner tried to read but no input was provided.">>]
    ELSE [type |-> "Exception", msg |-> <<"Error in execution: ">> \o stderr]

\* the exception of lines 64-77 for a nonzero exit with this stderr
Classify(stderr) ==
    IF Contains(stderr, "InputMismatchException")
      THEN [type |-> "ValueError",
            msg |-> <<"The input is of an incorrect type.">>]
    ELSE IF Contains(stderr, "NoSuchElementException")
      THEN [type |-> "EOFError",
            msg |-> <<"Scanner tried to read but no input was provided.">>]
    ELSE IF Contains(stderr, "NullPointerException")
      THEN [type |-> "AttributeError",
            msg |-> <<"A null object was accessed in the executed code.">>]
    ELSE [type |-> "Exception", msg |-> <<"Error in execution: ">> \o stderr]

\* a tool thread that has not been called
IdleCall ==
    [id |-> 0, pc |-> "idle", code |-> "none", earlier |-> {},
     rc |-> "none", diag |-> <<>>, src |-> 0, cerr |-> None,
     runrc |-> "none", stderr |-> <<>>, ran |-> 0, ranBy |-> 0,
     exc |-> NoException, result |-> None]

\* the working directory before the first call
SandboxIdle ==
    /\ files = [f \in FileNames |-> Absent]
    /\ th = [t \in Threads |-> IdleCall]
    /\ calls = 0

\* --------------------------------------- the screenshot tool's values (src/main.py)
MaxKeyEvents == 7

\* the key values pynput hands to the callbacks: the four keys of the two
\* chords and one key outside them
Keys == {"shift", "Q", "R", "F", "x"}

COMBINATION_CAPTURE == {"shift", "Q", "R"}

COMBINATION_FINISH == {"shift", "Q", "F"}

\* response_text of line 150: the model's answer, stripped; it may be empty
ResponseTexts == {<<>>, <<"task">>}

NewChord == [released |-> FALSE, capture |-> 0, finish |-> 0]

\* the module's globals (lines 194-196) and ScreenshotApp.__init__ up to
\* line 46
ScreenshotIdle ==
    /\ pressed_keys = {}
    /\ signals = <<>>
    /\ model = "unset"
    /\ captured_screens_bytes = 0
    /\ last_gemini_response = <<>>
    /\ key_events = 0
    /\ last_event = [kind |-> "none", key |-> "none"]
    /\ chord = NewChord
    /\ finishes = <<>>

\* ------------------------------------------------------------------ initial state
\* AgentWorker.__init__
NewBridge ==
    /\ user_reply = None
    /\ user_reply_ready = FALSE
    /\ waiters = {}
    /\ woken = {}
    /\ rpc = [c \in Callers |-> "idle"]
    /\ reply = [c \in Callers |-> None]
    /\ requests = 0
    /\ supplied = <<>>
    /\ returned = <<>>
    /\ sinceReturn = 0
    /\ resumes = 0

\* MainWindow.__init__
Init ==
    /\ problem_input = <<>>
    /\ start_enabled = FALSE
    /\ input_visible = FALSE
    /\ user_input = <<>>
    /\ worker = 0
    /\ thread = 0
    /\ crashed = FALSE
    /\ runs = 0
    /\ handled = <<>>
    /\ mpc = "idle"
    /\ queue = <<>>
    /\ emitted = <<>>
    /\ pc = "none"
    /\ turns = 0
    /\ err = None
    /\ NewBridge
    /\ SandboxIdle
    /\ ScreenshotIdle

\* ------------------------------------------------------------------ foreground
\* The foreground thread runs one slot at a time; it is inside set_user_reply
\* while mpc is not "idle".
ForegroundFree == mpc = "idle" /\ ~crashed

\* check_problem_input, lines 341-343 (textChanged of the problem line edit)
CheckProblemInput(text) ==
    /\ ForegroundFree
    /\ problem_input' = text
    /\ start_enabled' = (Len(Strip(text)) > 0)
    /\ UNCHANGED <<input_visible, user_input, worker, thread, crashed, runs,
                   handled, mpc, chanVars, drvVars, brVars, callVars, histVars>>
    /\ UNCHANGED <<sbVars, ssVars>>

\* start_task, lines 346-374 (clicked of the start button, which must be
\* enabled).  Replacing self.thread at line 362 drops the last reference to
\* the previous QThread; Qt aborts the process when a running QThread is
\* destroyed.
StartTask ==
    /\ ForegroundFree
    /\ start_enabled
    /\ runs < MaxRuns
    /\ IF Strip(problem_input) = <<>>
         THEN UNCHANGED vars
         ELSE IF thread # 0
         THEN /\ worker' = runs + 1
              /\ runs' = runs + 1
              /\ crashed' = TRUE
              /\ UNCHANGED <<problem_input, start_enabled, input_visible,
                             user_input, thread, handled, mpc, chanVars,
                             drvVars, brVars, callVars, histVars>>
         ELSE /\ worker' = runs + 1
              /\ thread' = runs + 1
              /\ runs' = runs + 1
              /\ start_enabled' = FALSE
              /\ user_reply' = None
              /\ user_reply_ready' = FALSE
              /\ waiters' = {}
              /\ woken' = {}
              /\ rpc' = [c \in Callers |-> "idle"]
              /\ reply' = [c \in Callers |-> None]
              /\ requests' = 0
              /\ supplied' = <<>>
              /\ returned' = <<>>
              /\ sinceReturn' = 0
              /\ resumes' = 0
              /\ emitted' = <<>>
              /\ handled' = <<>>
              /\ pc' = "run"
              /\ turns' = 0
              /\ err' = None
              /\ UNCHANGED <<problem_input, input_visible, user_input,
                             crashed, mpc, queue>>
    /\ UNCHANGED <<sbVars, ssVars>>

\* the user edits the reply line edit, which is reachable only while shown
TypeReply(text) ==
    /\ ForegroundFree
    /\ input_visible
    /\ user_input' = text
    /\ UNCHANGED <<problem_input, start_enabled, input_visible, worker, thread,
                   crashed, runs, handled, mpc, chanVars, drvVars, brVars,
                   callVars, histVars>>
    /\ UNCHANGED <<sbVars, ssVars>>

\* send_user_reply without the test of line 412
SendUserReply_NoBlankTest ==
    /\ ForegroundFree
    /\ input_visible
    /\ user_input' = <<>>
    /\ input_visible' = FALSE
    /\ IF worker # 0
         THEN SetUserReply(Strip(user_input))
         ELSE UNCHANGED <<mpc, brVars, histVars>>
    /\ UNCHANGED <<problem_input, start_enabled, worker, thread,
                   crashed, runs, handled, chanVars, drvVars,
                   callVars>>
    /\ UNCHANGED <<sbVars, ssVars>>

\* send_user_reply, lines 410-421 (returnPressed / clicked of the reply
\* widgets, reachable only while shown), up to and including line 65 of
\* set_user_reply
SendUserReply ==
    /\ ForegroundFree
    /\ input_visible
    /\ IF Strip(user_input) = <<>>
         THEN UNCHANGED vars
         ELSE /\ user_input' = <<>>
              /\ input_visible' = FALSE
              /\ IF worker # 0
                   THEN SetUserReply(Strip(user_input))
                   ELSE UNCHANGED <<mpc, brVars, histVars>>
              /\ UNCHANGED <<problem_input, start_enabled, worker, thread,
                             crashed, runs, handled, chanVars, drvVars,
                             callVars>>
    /\ UNCHANGED <<sbVars, ssVars>>

\* how handle_message renders an event, lines 378-389
Shown(ev) ==
    IF ev.type \in {"sys", "error", "done"} THEN "system"
    ELSE IF ev.type = "user" THEN "user"
    ELSE "agent"

\* handle_message, lines 376-389
HandleMessage ==
    /\ ForegroundFree
    /\ queue # <<>>
    /\ NextDelivery(queue).sig = "message_received"
    /\ handled' = Append(handled, [ev |-> NextDelivery(queue),
                                   shown |-> Shown(NextDelivery(queue))])
    /\ queue' = AfterDelivery(queue)
    /\ UNCHANGED <<problem_input, start_enabled, input_visible, user_input,
                   worker, thread, crashed, runs, mpc, emitted, drvVars,
                   brVars, callVars, histVars>>
    /\ UNCHANGED <<sbVars, ssVars>>

\* handle_user_prompt, lines 391-395
HandleUserPrompt ==
    /\ ForegroundFree
    /\ queue # <<>>
    /\ NextDelivery(queue).sig = "user_prompt"
    /\ handled' = Append(handled, [ev |-> NextDelivery(queue),
                                   shown |-> "system"])
    /\ queue' = AfterDelivery(queue)
    /\ input_visible' = TRUE
    /\ UNCHANGED <<problem_input, start_enabled, user_input, worker, thread,
                   crashed, runs, mpc, emitted, drvVars, brVars, callVars,
                   histVars>>
    /\ UNCHANGED <<sbVars, ssVars>>

\* handle_task_finished, lines 397-408.  thread.wait() at line 406 blocks the
\* foreground until worker.run has returned.
HandleTaskFinished ==
    /\ ForegroundFree
    /\ queue # <<>>
    /\ NextDelivery(queue).sig = "task_finished"
    /\ thread # 0 => pc = "returned"
    /\ handled' = Append(handled, [ev |-> NextDelivery(queue),
                                   shown |-> "finished"])
    /\ queue' = AfterDelivery(queue)
    /\ input_visible' = FALSE
    /\ start_enabled' = TRUE
    /\ thread' = 0
    /\ worker' = 0
    /\ UNCHANGED <<problem_input, user_input, crashed, runs, mpc, emitted,
                   drvVars, brVars, callVars, histVars>>
    /\ UNCHANGED <<sbVars, ssVars>>

\* ------------------------------------------------------------------ driver
\* _run_agent_team, lines 89-90: the initial system event
DriverBegin ==
    /\ pc = "run"
    /\ ~crashed
    /\ Emit(Ev("message_received", "sys", "system", <<"received">>))
    /\ pc' = "build"
    /\ UNCHANGED <<guiVars, mpc, turns, err, brVars, callVars, histVars>>
    /\ UNCHANGED <<sbVars, ssVars>>

\* _run_agent_team, lines 92-129: building and resetting the team; any
\* constructor may raise
DriverBuild ==
    /\ pc = "build"
    /\ ~crashed
    /\ \/ pc' = "stream" /\ UNCHANGED err
       \/ \E e \in Errors : pc' = "except" /\ err' = e
    /\ UNCHANGED <<guiVars, mpc, chanVars, turns, brVars, callVars, histVars>>
    /\ UNCHANGED <<sbVars, ssVars>>

\* _run_agent_team, lines 131-134: the stream yields a message of an agent
StreamMessage(src, content) ==
    /\ pc = "stream"
    /\ ~crashed
    /\ turns < MaxTurns
    /\ Emit(Ev("message_received", "TextMessage", src, content))
    /\ turns' = turns + 1
    /\ UNCHANGED <<guiVars, mpc, pc, err, brVars, callVars, histVars>>
    /\ UNCHANGED <<sbVars, ssVars>>

\* line 113: the human proxy's turn calls input_func = self._user_input
StreamHumanTurn ==
    /\ pc = "stream"
    /\ ~crashed
    /\ turns < MaxTurns
    /\ RequestEmit(1)
    /\ pc' = "input"
    /\ turns' = turns + 1
    /\ UNCHANGED <<guiVars, mpc, err, brVars>>
    /\ UNCHANGED <<sbVars, ssVars>>

\* lines 131-134: the human proxy's message, whose content is what
\* _user_input returned
DriverProxyMessage ==
    /\ pc = "input"
    /\ ~crashed
    /\ rpc[1] = "returned"
    /\ Emit(Ev("message_received", "TextMessage", "user_proxy", reply[1]))
    /\ rpc' = [rpc EXCEPT ![1] = "idle"]
    /\ pc' = "stream"
    /\ UNCHANGED <<guiVars, mpc, turns, err, brVars, reply, histVars>>
    /\ UNCHANGED <<sbVars, ssVars>>

\* mutant: the failure is reported inside the loop, which then goes on
StreamRaise_GoesOn(e) ==
    /\ pc = "stream"
    /\ ~crashed
    /\ err' = e
    /\ Emit(Ev("message_received", "error", "system", e))
    /\ UNCHANGED <<guiVars, mpc, pc, turns, brVars, callVars, histVars>>
    /\ UNCHANGED <<sbVars, ssVars>>

\* line 131: a participant or a tool raises while the stream is advanced
StreamRaise(e) ==
    /\ pc = "stream"
    /\ ~crashed
    /\ err' = e
    /\ pc' = "except"
    /\ UNCHANGED <<guiVars, mpc, chanVars, turns, brVars, callVars, histVars>>
    /\ UNCHANGED <<sbVars, ssVars>>

\* lines 131-133: the stream yields its TaskResult, which is skipped, and ends
StreamEnd ==
    /\ pc = "stream"
    /\ ~crashed
    /\ pc' = "done"
    /\ UNCHANGED <<guiVars, mpc, chanVars, turns, err, brVars, callVars,
                   histVars>>
    /\ UNCHANGED <<sbVars, ssVars>>

\* line 136
DriverDone ==
    /\ pc = "done"
    /\ ~crashed
    /\ Emit(Ev("message_received", "done", "system", <<"finished">>))
    /\ pc' = "finally"
    /\ UNCHANGED <<guiVars, mpc, turns, err, brVars, callVars, histVars>>
    /\ UNCHANGED <<sbVars, ssVars>>

\* a handler after which the try body's last statement still runs
DriverError_ThenDone ==
    /\ pc = "except"
    /\ ~crashed
    /\ Emit(Ev("message_received", "error", "system", err))
    /\ pc' = "done"
    /\ UNCHANGED <<guiVars, mpc, turns, err, brVars, callVars, histVars>>
    /\ UNCHANGED <<sbVars, ssVars>>

\* mutant: the except branch returns without reaching the finally clause
DriverError_SkipsFinally ==
    /\ pc = "except"
    /\ ~crashed
    /\ Emit(Ev("message_received", "error", "system", err))
    /\ pc' = "returned"
    /\ UNCHANGED <<guiVars, mpc, turns, err, brVars, callVars, histVars>>
    /\ UNCHANGED <<sbVars, ssVars>>

\* lines 138-140
DriverError ==
    /\ pc = "except"
    /\ ~crashed
    /\ Emit(Ev("message_received", "error", "system", err))
    /\ pc' = "finally"
    /\ UNCHANGED <<guiVars, mpc, turns, err, brVars, callVars, histVars>>
    /\ UNCHANGED <<sbVars, ssVars>>

\* lines 141-142, then run() closes the loop and returns (lines 84-85)
DriverFinally ==
    /\ pc = "finally"
    /\ ~crashed
    /\ Emit(Ev("task_finished", "finished", "system", <<>>))
    /\ pc' = "returned"
    /\ UNCHANGED <<guiVars, mpc, turns, err, brVars, callVars, histVars>>
    /\ UNCHANGED <<sbVars, ssVars>>

\* ------------------------------------------------------------------ application
Next ==
    \/ \E text \in ProblemTexts : CheckProblemInput(text)
    \/ StartTask
    \/ \E text \in UserTexts : TypeReply(text)
    \/ SendUserReply
    \/ EventSetValue
    \/ EventWake
    \/ HandleMessage
    \/ HandleUserPrompt
    \/ HandleTaskFinished
    \/ DriverBegin
    \/ DriverBuild
    \/ \E src \in StreamSources, content \in MsgContents :
          StreamMessage(src, content)
    \/ StreamHumanTurn
    \/ WaitCheck(1)
    \/ WaitRegister(1)
    \/ Resume(1)
    \/ ReadReply(1)
    \/ ClearReply(1)
    \/ ClearReady(1)
    \/ DriverProxyMessage
    \/ \E e \in Errors : StreamRaise(e)
    \/ StreamEnd
    \/ DriverDone
    \/ DriverError
    \/ DriverFinally

Spec == Init /\ [][Next]_vars

\* ------------------------------------------------------------------ bridge alone
\* An AgentWorker right after __init__ (lines 57-61), no run in progress.
BridgeInit ==
    /\ problem_input = <<>>
    /\ start_enabled = FALSE
    /\ input_visible = FALSE
    /\ user_input = <<>>
    /\ worker = 1
    /\ thread = 0
    /\ crashed = FALSE
    /\ runs = 1
    /\ handled = <<>>
    /\ mpc = "idle"
    /\ queue = <<>>
    /\ emitted = <<>>
    /\ pc = "none"
    /\ turns = 0
    /\ err = None
    /\ NewBridge
    /\ SandboxIdle
    /\ ScreenshotIdle

\* a coroutine of the driver loop calls _user_input (lines 68-71)
BridgeRequest(c) ==
    /\ requests < MaxRequests
    /\ RequestEmit(c)
    /\ UNCHANGED <<guiVars, mpc, drvVars, brVars>>
    /\ UNCHANGED <<sbVars, ssVars>>

\* the other context calls set_user_reply (lines 63-65)
BridgeSupply(r) ==
    /\ Len(supplied) < MaxSupplies
    /\ SetUserReply(r)
    /\ UNCHANGED <<guiVars, chanVars, drvVars, callVars>>
    /\ UNCHANGED <<sbVars, ssVars>>

BridgeNext ==
    \/ \E c \in Callers : BridgeRequest(c)
    \/ \E r \in Replies : BridgeSupply(r)
    \/ EventSetValue
    \/ EventWake
    \/ \E c \in Callers : WaitCheck(c)
    \/ \E c \in Callers : WaitRegister(c)
    \/ \E c \in Callers : Resume(c)
    \/ \E c \in Callers : ReadReply(c)
    \/ \E c \in Callers : ClearReply(c)
    \/ \E c \in Callers : ClearReady(c)

BridgeSpec == BridgeInit /\ [][BridgeNext]_vars

\* ------------------------------------------------------------------ properties
Positions(seq, Test(_)) == {i \in 1..Len(seq) : Test(seq[i])}

IsFinished(ev) == ev.sig = "task_finished"

IsError(ev) == ev.type = "error"

\* C1: a run emits task_finished at most once, nothing after it, and has
\* emitted it exactly once when run() returns, whichever way the run ended
\* (stream exhausted, exception while building, exception mid-stream).
C1_TerminalOnceAndLast ==
    /\ Cardinality(Positions(emitted, IsFinished)) <= 1
    /\ \A i \in Positions(emitted, IsFinished) : i = Len(emitted)
    /\ pc = "returned" <=> Positions(emitted, IsFinished) # {}

\* a run that failed mid-stream, after at least one turn, has returned
C1_Witness ==
    /\ pc = "returned"
    /\ turns > 0
    /\ Positions(emitted, IsError) # {}
    /\ emitted[Len(emitted)].sig = "task_finished"

\* C2: once a participant or tool has raised, the driver is in its handler or
\* past it; the run emits at most one error event, which carries str(e), is
\* followed by nothing but task_finished, and is there when run() returns.
C2_ErrorThenCompletion ==
    /\ Cardinality(Positions(emitted, IsError)) <= 1
    /\ \A i \in Positions(emitted, IsError) :
          /\ emitted[i].content = err
          /\ \A j \in (i + 1)..Len(emitted) : emitted[j].sig = "task_finished"
    /\ err # None => pc \in {"except", "finally", "returned"}
    /\ (err # None /\ pc \in {"finally", "returned"}) =>
          Positions(emitted, IsError) # {}
    /\ (err # None /\ pc = "returned") =>
          /\ Len(emitted) >= 2
          /\ IsError(emitted[Len(emitted) - 1])
          /\ IsFinished(emitted[Len(emitted)])

\* a participant raised after the human proxy's message was forwarded
C2_Witness ==
    /\ pc = "returned"
    /\ err # None
    /\ \E i \in 1..Len(emitted) : emitted[i].source = "user_proxy"
                                   /\ emitted[i].sig = "message_received"
    /\ IsError(emitted[Len(emitted) - 1])

C4_SupplyWithoutRequestRejected ==
    [][(Len(supplied') > Len(supplied) /\ Outstanding = {}) =>
          (user_reply' = user_reply /\ user_reply_ready' = user_reply_ready)]_vars

\* C5 (as claimed): at most one request is outstanding on the bridge.
C5_AtMostOneOutstanding == Cardinality(Outstanding) <= 1

\* C6 (as claimed): once a request has returned, with no request in progress
\* and no set_user_reply call begun since, the bridge is idle: the reply slot
\* is empty and the ready flag is clear, so the next request suspends.
C6_IdleAfterResume ==
    (/\ returned # <<>>
     /\ \A c \in Callers : rpc[c] \in {"idle", "returned"}
     /\ sinceReturn = 0) =>
        /\ user_reply = None
        /\ ~user_reply_ready

\* C7 (as claimed): every call of set_user_reply on a worker is made while a
\* request of that worker is outstanding (the driver is inside _user_input,
\* its prompt published and its reply not yet taken), and the i-th call
\* answers the i-th request: at most one reply per request, none without one.
C7_ReplyOncePerRequest ==
    \A i \in 1..Len(supplied) :
        supplied[i].outstanding /\ supplied[i].req = i

\* C8: the foreground has handled a prefix of what the driver emitted, in the
\* same order; the system event is handled first and task_finished last,
\* after every other event of the run.
C8_DeliveryInProductionOrder ==
    /\ Len(handled) <= Len(emitted)
    /\ \A i \in 1..Len(handled) :
          /\ handled[i].ev = emitted[i]
          /\ handled[i].ev.type = "sys" <=> i = 1
          /\ IsFinished(handled[i].ev) =>
                (i = Len(handled) /\ i = Len(emitted) /\ queue = <<>>)

\* a whole run with a prompt in it has been handled up to task_finished
C8_Witness ==
    /\ Len(handled) = Len(emitted)
    /\ Len(handled) >= 5
    /\ IsFinished(handled[Len(handled)].ev)
    /\ \E i \in 1..Len(handled) : handled[i].ev.sig = "user_prompt"

\* ------------------------------------------------- the tool (src/code_run.py)
\* One call of compile_and_run_java runs on tool thread t.  Its steps are the
\* places where the call touches the working directory or a child process;
\* steps of different threads interleave freely.

Update(t, changes) == th' = [th EXCEPT ![t] = changes]

\* the calls that had returned when a new one begins
Returned == (1..calls) \ {th[u].id : u \in {v \in Threads : th[v].pc # "returned"}}

\* an agent calls the tool with a code argument (line 88)
Invoke(t, kind) ==
    /\ th[t].pc \in {"idle", "returned"}
    /\ calls < MaxInvocations
    /\ calls' = calls + 1
    /\ Update(t, [IdleCall EXCEPT !.id = calls + 1, !.pc = "write",
                                   !.code = kind, !.earlier = Returned])
    /\ UNCHANGED <<appVars, ssVars, files>>

\* compile_java_code, lines 18-19: the code argument replaces Main.java
WriteSource(t) ==
    /\ th[t].pc = "write"
    /\ files' = [files EXCEPT !["Main.java"] =
                    [by |-> th[t].id, owner |-> th[t].id, kind |-> th[t].code]]
    /\ Update(t, [th[t] EXCEPT !.pc = "javac"])
    /\ UNCHANGED <<appVars, ssVars, calls>>

\* lines 18-19 fail with an exception other than FileNotFoundError, which
\* line 35 turns into the function's result
WriteFault(t, e) ==
    /\ th[t].pc = "write"
    /\ Update(t, [th[t] EXCEPT !.pc = "cleanup", !.rc = "fault",
                               !.cerr = <<"Compilation error: ">> \o e])
    /\ UNCHANGED <<appVars, ssVars, files, calls>>

\* what the javac child process of lines 22-26 does with the Main.java it
\* finds: its exit status, its stderr and the class file it writes.  A javac
\* that is killed exits nonzero and prints nothing.
JavacExit(source, how) ==
    IF how = "killed" THEN [rc |-> "nonzero", diag |-> <<>>, class |-> "none"]
    ELSE IF source = Absent
      THEN [rc |-> "nonzero", diag |-> SourceNotFound, class |-> "none"]
    ELSE IF source.kind = "bad"
      THEN [rc |-> "nonzero", diag |-> CompileErrors, class |-> "none"]
    ELSE [rc |-> "zero",
          diag |-> IF how = "warn" THEN CompileWarnings ELSE <<>>,
          class |-> IF source.kind = "good" THEN "Main.class"
                                            ELSE "Other.class"]

\* compile_java_code, lines 22-31: javac compiles whatever Main.java holds
\* now; stderr is the result on a nonzero exit, None otherwise
Javac(t, how) ==
    /\ th[t].pc = "javac"
    /\ LET source == files["Main.java"]
           exit == JavacExit(source, how)
       IN /\ files' = IF exit.class = "none" THEN files
                      ELSE [files EXCEPT ![exit.class] =
                               [by |-> th[t].id, owner |-> source.owner,
                                kind |-> source.kind]]
          /\ Update(t, [th[t] EXCEPT
                           !.pc = "cleanup", !.rc = exit.rc,
                           !.diag = exit.diag, !.src = source.owner,
                           !.cerr = IF exit.rc # "zero" THEN exit.diag
                                                        ELSE None])
    /\ UNCHANGED <<appVars, ssVars, calls>>

\* lines 33-34: there is no javac binary
JavacNotFound(t) ==
    /\ th[t].pc = "javac"
    /\ Update(t, [th[t] EXCEPT !.pc = "cleanup", !.rc = "missing",
                               !.cerr = JavacMissing])
    /\ UNCHANGED <<appVars, ssVars, files, calls>>

\* lines 35-36: subprocess.run raises something else
JavacFault(t, e) ==
    /\ th[t].pc = "javac"
    /\ Update(t, [th[t] EXCEPT !.pc = "cleanup", !.rc = "fault",
                               !.cerr = <<"Compilation error: ">> \o e])
    /\ UNCHANGED <<appVars, ssVars, files, calls>>

\* the finally clause, lines 37-43: Main.java is removed if there is one,
\* whoever wrote it; no class file is removed
Cleanup(t) ==
    /\ th[t].pc = "cleanup"
    /\ files' = [files EXCEPT !["Main.java"] = Absent]
    /\ Update(t, [th[t] EXCEPT !.pc = "decide"])
    /\ UNCHANGED <<appVars, ssVars, calls>>

\* compile_and_run_java, lines 93-95
Decide(t) ==
    /\ th[t].pc = "decide"
    /\ IF Truthy(th[t].cerr)
         THEN Update(t, [th[t] EXCEPT
                  !.pc = "returned",
                  !.result = <<"Compilation failed:", "\n">> \o th[t].cerr])
         ELSE Update(t, [th[t] EXCEPT !.pc = "java"])
    /\ UNCHANGED <<appVars, ssVars, files, calls>>

\* run_java_class, lines 53-79: the java child process loads whatever
\* Main.class holds now and runs it on input_data; its exit status and stderr
\* depend on program and input.  Exit 0 returns stdout, a nonzero exit raises
\* the exception of lines 64-77, which line 85 re-raises.
RunJava(t, rc, stderr) ==
    /\ th[t].pc = "java"
    /\ files["Main.class"] # Absent
    /\ LET class == files["Main.class"]
       IN Update(t, [th[t] EXCEPT
              !.runrc = rc, !.stderr = stderr,
              !.ran = class.owner, !.ranBy = class.by,
              !.pc = IF rc = "zero" THEN "returned" ELSE "catch",
              !.exc = IF rc = "zero" THEN NoException ELSE Classify(stderr),
              !.result = IF rc = "zero" THEN Stdout(class.owner) ELSE None])
    /\ UNCHANGED <<appVars, ssVars, files, calls>>

\* lines 53-77 when there is no Main.class: java exits nonzero
RunJavaNoClass(t) ==
    /\ th[t].pc = "java"
    /\ files["Main.class"] = Absent
    /\ Update(t, [th[t] EXCEPT !.runrc = "nonzero", !.stderr = ClassNotFound,
                               !.pc = "catch",
                               !.exc = Classify(ClassNotFound)])
    /\ UNCHANGED <<appVars, ssVars, files, calls>>

\* lines 81-82: there is no java binary; the text is returned, and line 100
\* returns it in turn
JavaNotFound(t) ==
    /\ th[t].pc = "java"
    /\ Update(t, [th[t] EXCEPT !.runrc = "missing", !.pc = "returned",
                               !.result = JavaMissing])
    /\ UNCHANGED <<appVars, ssVars, files, calls>>

\* lines 83-85: Popen or communicate raises something else, re-raised
JavaFault(t, e) ==
    /\ th[t].pc = "java"
    /\ Update(t, [th[t] EXCEPT !.runrc = "fault", !.pc = "catch",
                               !.exc = [type |-> "OSError", msg |-> e]])
    /\ UNCHANGED <<appVars, ssVars, files, calls>>

\* a handler that names only the exceptions run_java_class raises itself
CatchExecution_NamedOnly(t) ==
    /\ th[t].pc = "catch"
    /\ IF th[t].exc.type \in {"ValueError", "EOFError", "AttributeError"}
         THEN Update(t, [th[t] EXCEPT
                  !.pc = "returned",
                  !.result = <<"Execution failed:", " ">> \o th[t].exc.msg])
         ELSE Update(t, [th[t] EXCEPT !.pc = "raised"])
    /\ UNCHANGED <<appVars, ssVars, files, calls>>

\* compile_and_run_java, lines 101-102: every Exception becomes a result
CatchExecution(t) ==
    /\ th[t].pc = "catch"
    /\ Update(t, [th[t] EXCEPT
           !.pc = "returned",
           !.result = <<"Execution failed:", " ">> \o th[t].exc.msg])
    /\ UNCHANGED <<appVars, ssVars, files, calls>>

SandboxNext ==
    \/ \E t \in Threads, kind \in CodeKinds : Invoke(t, kind)
    \/ \E t \in Threads : WriteSource(t)
    \/ \E t \in Threads, e \in Faults : WriteFault(t, e)
    \/ \E t \in Threads, how \in {"quiet", "warn", "killed"} : Javac(t, how)
    \/ \E t \in Threads : JavacNotFound(t)
    \/ \E t \in Threads, e \in Faults : JavacFault(t, e)
    \/ \E t \in Threads : Cleanup(t)
    \/ \E t \in Threads : Decide(t)
    \/ \E t \in Threads, rc \in {"zero", "nonzero"}, stderr \in RunStderrs :
           RunJava(t, rc, stderr)
    \/ \E t \in Threads : RunJavaNoClass(t)
    \/ \E t \in Threads : JavaNotFound(t)
    \/ \E t \in Threads, e \in Faults : JavaFault(t, e)
    \/ \E t \in Threads : CatchExecution(t)

\* the tool alone: the application stays in its initial state
SandboxSpec == Init /\ [][SandboxNext]_vars

\* C12 (as claimed): the run step starts only after a successful compile of
\* the same invocation, success being exit code 0 with no diagnostic text.
C12_RunOnlyAfterSuccessfulCompile ==
    \A t \in Threads :
        th[t].runrc # "none" => (th[t].rc = "zero" /\ th[t].diag = <<>>)

StartsWith(text, prefix) == Len(text) >= 1 /\ text[1] = prefix

EndsWith(text, tail) ==
    /\ Len(text) >= Len(tail)
    /\ SubSeq(text, Len(text) - Len(tail) + 1, Len(text)) = tail

\* the compile step of a call failed: javac exited nonzero, was missing, or
\* the step raised
CompileFailed(c) == c.rc \in {"nonzero", "missing", "fault"}

\* what the compile step reported: javac's stderr, or the text of the failure
Diagnostic(c) == IF c.rc = "nonzero" THEN c.diag ELSE c.cerr

\* C13 (as claimed): every returned call maps its outcome to text: a compile
\* failure gives "Compilation failed:" followed by the diagnostic, a runtime
\* failure gives "Execution failed:" followed by the detail, success gives
\* the program's stdout and nothing else.
C13_OutcomeToText ==
    \A t \in Threads :
        th[t].pc = "returned" =>
            IF CompileFailed(th[t])
              THEN /\ StartsWith(th[t].result, "Compilation failed:")
                   /\ EndsWith(th[t].result, Diagnostic(th[t]))
                   /\ th[t].runrc = "none"
            ELSE IF th[t].runrc = "zero"
              THEN th[t].result = Stdout(th[t].ran)
            ELSE /\ StartsWith(th[t].result, "Execution failed:")
                 /\ th[t].runrc = "nonzero" =>
                        EndsWith(th[t].result, Classify(th[t].stderr).msg)

\* C14: compile_and_run_java never raises to its caller; every call that has
\* ended has returned a text, whatever the compile and run steps met.
C14_NeverRaises ==
    \A t \in Threads :
        /\ th[t].pc # "raised"
        /\ th[t].pc = "returned" => th[t].result # None

\* calls have returned a text after an unexpected fault of the compile step
\* and after an unexpected fault of the run step
C14_Witness ==
    /\ \E t \in Threads : /\ th[t].pc = "returned"
                          /\ th[t].rc = "fault"
                          /\ StartsWith(th[t].result, "Compilation failed:")
    /\ \E t \in Threads : /\ th[t].pc = "returned"
                          /\ th[t].runrc = "fault"
                          /\ StartsWith(th[t].result, "Execution failed:")

\* C15 (as claimed): a missing compiler gives a compile failure and a missing
\* runtime gives a result prefixed as a failure.
C15_MissingToolchainIsFailure ==
    \A t \in Threads :
        th[t].pc = "returned" =>
            /\ th[t].rc = "missing" =>
                   StartsWith(th[t].result, "Compilation failed:")
            /\ th[t].runrc = "missing" =>
                   StartsWith(th[t].result, "Execution failed:")

\* C16 (as claimed): calls in progress at the same time do not touch each
\* other's files: the source javac compiles for a call is the one this call
\* wrote, and the class a call runs was not compiled from the source of a
\* call in progress beside it.
C16_ConcurrentCallsIsolated ==
    \A t \in Threads :
        /\ th[t].rc \in {"zero", "nonzero"} => th[t].src = th[t].id
        /\ th[t].ran # 0 => th[t].ran \in {th[t].id} \cup th[t].earlier

\* C17 (as claimed): once a call has returned, no file that it created
\* remains in the working directory.
C17_NoFilesLeftBehind ==
    \A t \in Threads :
        th[t].pc = "returned" =>
            \A f \in FileNames : files[f].by # th[t].id

\* C20 (as claimed): the class a call runs was never left behind by a call
\* that had returned before this one began.
C20_NeverRunsStaleClass ==
    \A t \in Threads :
        th[t].ran # 0 => th[t].ranBy \notin th[t].earlier

\* ------------------------------------- run_java_class on every diagnostic text
MaxStderrLen == 3

\* what a line of java's stderr may be: one of the three sentinels of lines
\* 66, 69 and 72, or anything else
StderrTokens == {"InputMismatchException", "NoSuchElementException",
                 "NullPointerException", "trace"}

StderrTexts == UNION {[1..n -> StderrTokens] : n \in 0..MaxStderrLen}

\* one caller compiles a program that declares Main and runs it; the run
\* ends with either exit status and any stderr
ClassifyNext ==
    \/ Invoke(1, "good")
    \/ WriteSource(1)
    \/ Javac(1, "quiet")
    \/ Cleanup(1)
    \/ Decide(1)
    \/ \E rc \in {"zero", "nonzero"}, stderr \in StderrTexts :
           RunJava(1, rc, stderr)
    \/ CatchExecution(1)

ClassifySpec == Init /\ [][ClassifyNext]_vars

\* the sentinels in the order of their priority, and the failure each means
Sentinels == <<"InputMismatchException", "NoSuchElementException",
               "NullPointerException">>

FailureKinds == <<"ValueError", "EOFError", "AttributeError">>

\* C21: after a nonzero exit the failure has the kind of the first sentinel,
\* in the order type-mismatch, empty-input, null-dereference, that stderr
\* contains, whatever else it contains; with no sentinel it is unclassified
\* and carries stderr unchanged; after exit 0 there is no failure and the
\* result is the program's stdout, whatever stderr contains.
C21_ClassifiedByFirstSentinel ==
    \A t \in Threads :
        /\ th[t].runrc = "nonzero" =>
               LET present == {k \in 1..3 : Contains(th[t].stderr, Sentinels[k])}
               IN IF present = {}
                    THEN /\ th[t].exc.type = "Exception"
                         /\ EndsWith(th[t].exc.msg, th[t].stderr)
                    ELSE \E k \in present :
                            /\ \A j \in present : k <= j
                            /\ th[t].exc.type = FailureKinds[k]
        /\ th[t].runrc = "zero" =>
               /\ th[t].exc = NoException
               /\ th[t].pc = "returned"
               /\ th[t].result = Stdout(th[t].ran)

\* a nonzero exit whose stderr names the null-dereference sentinel before the
\* type-mismatch sentinel has been classified as a type mismatch and returned
C21_Witness ==
    /\ th[1].runrc = "nonzero"
    /\ th[1].stderr = <<"NullPointerException", "trace", "InputMismatchException">>
    /\ th[1].exc.type = "ValueError"
    /\ th[1].pc = "returned"

\* ------------------------------------------------------- the run's life cycle
IsDone(ev) == ev.type = "done"

\* C24 (as claimed): while a run's thread is alive the foreground's worker
\* reference designates that run, and no second run has been begun beside it.
C24_AtMostOneActiveRun ==
    /\ ~crashed
    /\ thread # 0 => worker = thread

\* C23 (as claimed): the driver is suspended on the bridge only in a run that
\* is still the foreground's run; a run that was abandoned has had its
\* request released.
C23_NoAbandonedSuspendedDriver ==
    rpc[1] = "suspended" => (~crashed /\ thread # 0 /\ worker = thread)

\* C25: in one run 'done' and 'error' exclude each other; 'done' has been
\* emitted exactly when the stream was exhausted and nothing raised, 'error'
\* exactly when an exception was caught, and when run() has returned one of
\* the two is there and task_finished is the last emission.
C25_DoneXorError ==
    LET dones == Positions(emitted, IsDone)
        errors == Positions(emitted, IsError)
    IN /\ dones = {} \/ errors = {}
       /\ Cardinality(dones) <= 1
       /\ dones # {} => (err = None /\ pc \in {"finally", "returned"})
       /\ errors # {} => (err # None /\ pc \in {"finally", "returned"})
       /\ pc \in {"finally", "returned"} =>
             /\ err = None <=> dones # {}
             /\ err # None <=> errors # {}
       /\ pc = "returned" =>
             /\ IsFinished(emitted[Len(emitted)])
             /\ \A i \in dones \cup errors : i = Len(emitted) - 1

\* a run whose stream was exhausted after the human proxy's turn has
\* returned with 'done' and no 'error'
C25_Witness ==
    /\ pc = "returned"
    /\ err = None
    /\ Positions(emitted, IsDone) # {}
    /\ Positions(emitted, IsError) = {}
    /\ returned # <<>>
    /\ IsFinished(emitted[Len(emitted)])

appIdle == UNCHANGED <<appVars, sbVars>>

\* init_gemini, lines 76-92, called from __init__ at line 49: self.model is
\* set only when the key is there and the client could be built
InitGemini(ok) ==
    /\ model = "unset"
    /\ model' = IF ok THEN "ready" ELSE "none"
    /\ UNCHANGED <<pressed_keys, signals, captured_screens_bytes,
                   last_gemini_response, key_events, last_event, chord,
                   finishes>>
    /\ appIdle

\* the request on_press emits for this set of keys, lines 204-214
RequestFor(keys) ==
    IF keys = COMBINATION_CAPTURE THEN <<"capture">>
    ELSE IF keys = COMBINATION_FINISH THEN <<"finish">>
    ELSE <<>>

\* on_press, lines 199-214, in the listener thread, which main() starts after
\* the ScreenshotApp is built (lines 229-233).  pynput calls it for every key
\* press the system reports, the repeats of a held key included.
on_press(key) ==
    /\ model # "unset"
    /\ key_events < MaxKeyEvents
    /\ key_events' = key_events + 1
    /\ last_event' = [kind |-> "press", key |-> key]
    /\ IF key \in COMBINATION_CAPTURE \/ key \in COMBINATION_FINISH
         THEN /\ pressed_keys' = pressed_keys \cup {key}
              /\ signals' = signals \o RequestFor(pressed_keys')
              /\ chord' = [chord EXCEPT
                    !.capture = IF pressed_keys' = COMBINATION_CAPTURE
                                  THEN @ + 1 ELSE @,
                    !.finish = IF pressed_keys' = COMBINATION_FINISH
                                  THEN @ + 1 ELSE @]
         ELSE UNCHANGED <<pressed_keys, signals, chord>>
    /\ UNCHANGED <<model, captured_screens_bytes, last_gemini_response,
                   finishes>>
    /\ appIdle

\* on_release, lines 217-222
on_release(key) ==
    /\ model # "unset"
    /\ key_events < MaxKeyEvents
    /\ key_events' = key_events + 1
    /\ last_event' = [kind |-> "release", key |-> key]
    /\ pressed_keys' = pressed_keys \ {key}
    /\ chord' = IF pressed_keys' = {} THEN NewChord
                ELSE [chord EXCEPT !.released = @ \/ key \in pressed_keys]
    /\ UNCHANGED <<signals, model, captured_screens_bytes,
                   last_gemini_response, finishes>>
    /\ appIdle

\* capture_and_process_screenshot, lines 115-160, the slot of
\* capture_requested in the GUI thread.  Without a model it returns at once;
\* grabbing the screen may raise before the bytes are appended (line 141),
\* generate_content may raise after it; otherwise the stripped answer
\* becomes last_gemini_response.  Every exception ends in the handler of
\* lines 157-160.
capture_and_process_screenshot(outcome, text) ==
    /\ signals # <<>>
    /\ Head(signals) = "capture"
    /\ signals' = Tail(signals)
    /\ IF model # "ready" \/ outcome = "grab raises"
         THEN UNCHANGED <<captured_screens_bytes, last_gemini_response>>
         ELSE /\ captured_screens_bytes' = captured_screens_bytes + 1
              /\ last_gemini_response' =
                    IF outcome = "answers" THEN text
                                           ELSE last_gemini_response
    /\ UNCHANGED <<pressed_keys, model, key_events, last_event, chord,
                   finishes>>
    /\ appIdle

\* a slot that empties the accumulated state before it posts
send_final_result_to_backend_ResetsFirst(outcome) ==
    /\ signals # <<>>
    /\ Head(signals) = "finish"
    /\ signals' = Tail(signals)
    /\ IF last_gemini_response = <<>>
         THEN /\ finishes' = Append(finishes, [outcome |-> "nothing",
                                               payload |-> None])
              /\ UNCHANGED <<captured_screens_bytes, last_gemini_response>>
         ELSE /\ finishes' = Append(finishes,
                    [outcome |-> IF outcome = "completes" THEN "sent"
                                                          ELSE "raised",
                     payload |-> last_gemini_response])
              /\ captured_screens_bytes' = 0
              /\ last_gemini_response' = <<>>
    /\ UNCHANGED <<pressed_keys, model, key_events, last_event, chord>>
    /\ appIdle

\* send_final_result_to_backend, lines 162-190, the slot of finish_requested.
\* With no response it returns (lines 165-169); requests.post either
\* completes, whatever the status code, and lines 183-184 reset the state,
\* or raises, and the handler of lines 187-190 leaves the state alone.
send_final_result_to_backend(outcome) ==
    /\ signals # <<>>
    /\ Head(signals) = "finish"
    /\ signals' = Tail(signals)
    /\ IF last_gemini_response = <<>>
         THEN /\ finishes' = Append(finishes, [outcome |-> "nothing",
                                               payload |-> None])
              /\ UNCHANGED <<captured_screens_bytes, last_gemini_response>>
         ELSE IF outcome = "completes"
         THEN /\ finishes' = Append(finishes,
                    [outcome |-> "sent", payload |-> last_gemini_response])
              /\ captured_screens_bytes' = 0
              /\ last_gemini_response' = <<>>
         ELSE /\ finishes' = Append(finishes,
                    [outcome |-> "raised", payload |-> last_gemini_response])
              /\ UNCHANGED <<captured_screens_bytes, last_gemini_response>>
    /\ UNCHANGED <<pressed_keys, model, key_events, last_event, chord>>
    /\ appIdle

ScreenshotNext ==
    \/ \E ok \in BOOLEAN : InitGemini(ok)
    \/ \E key \in Keys : on_press(key)
    \/ \E key \in Keys : on_release(key)
    \/ \E outcome \in {"grab raises", "model raises", "answers"},
          text \in ResponseTexts :
           capture_and_process_screenshot(outcome, text)
    \/ \E outcome \in {"completes", "raises"} :
           send_final_result_to_backend(outcome)

\* the screenshot tool alone
ScreenshotSpec == Init /\ [][ScreenshotNext]_vars

\* C27 (as claimed): the pressed set holds only keys of the two chords; a
\* press of a key outside both chords changes nothing and emits nothing; a
\* press of a chord key emits the capture request exactly when the set after
\* it is {shift, Q, R}, the finish request exactly when it is {shift, Q, F},
\* never both; and while the keys of one chord go down, before any of them
\* is released, the chord's request is emitted once and no more.
C27_ChordStateMachine ==
    [][key_events' # key_events =>
          LET emits == SubSeq(signals', Len(signals) + 1, Len(signals'))
          IN /\ pressed_keys' \subseteq COMBINATION_CAPTURE \cup COMBINATION_FINISH
             /\ (/\ last_event'.kind = "press"
                 /\ last_event'.key \notin COMBINATION_CAPTURE \cup COMBINATION_FINISH)
                    => (pressed_keys' = pressed_keys /\ emits = <<>>)
             /\ last_event'.kind = "release" => emits = <<>>
             /\ (/\ last_event'.kind = "press"
                 /\ last_event'.key \in COMBINATION_CAPTURE \cup COMBINATION_FINISH)
                    => /\ Len(emits) <= 1
                       /\ emits = <<"capture">> <=>
                              pressed_keys' = COMBINATION_CAPTURE
                       /\ emits = <<"finish">> <=>
                              pressed_keys' = COMBINATION_FINISH
             /\ ~chord'.released => chord'.capture + chord'.finish <= 1]_vars

\* C28: a finish request with no extracted response sends nothing and
\* leaves the captured screens and the response as they are; one whose send
\* completes posts the response and empties both; one whose send raises
\* leaves both as they are.
C28_FinishDelivery ==
    [][Len(finishes') > Len(finishes) =>
          LET f == finishes'[Len(finishes')]
              same == /\ captured_screens_bytes' = captured_screens_bytes
                      /\ last_gemini_response' = last_gemini_response
          IN /\ f.outcome = "nothing" <=> last_gemini_response = <<>>
             /\ f.outcome = "nothing" => (same /\ f.payload = None)
             /\ f.outcome = "sent" =>
                    /\ f.payload = last_gemini_response
                    /\ captured_screens_bytes' = 0
                    /\ last_gemini_response' = <<>>
             /\ f.outcome = "raised" => same]_vars

\* a send that raised was followed by a send of the same text that
\* completed and emptied the accumulated state
C28_Witness ==
    /\ Len(finishes) = 2
    /\ finishes[1].outcome = "raised"
    /\ finishes[2].outcome = "sent"
    /\ finishes[2].payload = finishes[1].payload
    /\ captured_screens_bytes = 0
    /\ last_gemini_response = <<>>

\* C19 (as claimed): no wake-up is lost.  Whenever the driver is suspended in
\* _user_input, a reply has been supplied for each of its requests and the
\* foreground has left set_user_reply, the driver's wait() has been woken.
C19_NoLostWakeup ==
    (/\ rpc[1] = "suspended"
     /\ Len(supplied) >= requests
     /\ mpc = "idle") =>
        1 \in woken

====
